---- MODULE Spec2Model ----
(***************************************************************************)
(* A model of datatable.js: the built-in number formatters with their      *)
(* shared cache of locale objects, and the DataTable component (sort       *)
(* state, renderRows, the click handler and the events it dispatches).     *)
(*                                                                         *)
(* JavaScript values that reach the formatters are records [t, n, d]: t is *)
(* the kind of value and, for a finite number, n/d is the number.  Strings *)
(* of markup are sequences of tokens; the text Intl.NumberFormat and       *)
(* Number.prototype.toFixed produce is one token that records the number   *)
(* and the fraction digits it was formatted with.                          *)
(***************************************************************************)
EXTENDS Integers, Sequences, FiniteSets, TLC

\* ------------------------------------------------------------------------
\* Bounds of the model.
MaxRows == 2
MaxPrecision == 2
MaxCreated == 2

Range(s) == {s[i] : i \in DOMAIN s}

\* ------------------------------------------------------------------------
\* JavaScript values.
JSNull == [t |-> "null", n |-> 0, d |-> 1]
JSUndefined == [t |-> "undefined", n |-> 0, d |-> 1]
JSNaN == [t |-> "NaN", n |-> 0, d |-> 1]
JSInfinity == [t |-> "Infinity", n |-> 1, d |-> 1]
Num(k) == [t |-> "number", n |-> k, d |-> 1]

\* ToNumber, as the operators / and isFinite apply it to their operand.
ToNumber(v) ==
  CASE v.t = "null" -> Num(0)
    [] v.t = "undefined" -> JSNaN
    [] OTHER -> v

\* v / k for a positive finite k.
Divide(v, k) ==
  LET x == ToNumber(v)
  IN IF x.t = "number" THEN [t |-> "number", n |-> x.n, d |-> x.d * k] ELSE x

\* v * k for a positive finite k.
Times(v, k) ==
  LET x == ToNumber(v)
  IN IF x.t = "number" THEN [t |-> "number", n |-> x.n * k, d |-> x.d] ELSE x

\* ToBoolean, as && applies it to its left operand.
Truthy(v) ==
  CASE v.t \in {"null", "undefined", "NaN"} -> FALSE
    [] v.t = "number" -> v.n # 0
    [] OTHER -> TRUE

isFinite(v) == ToNumber(v).t = "number"

isValidNumber(v) == v.t \notin {"null", "undefined"} /\ isFinite(v)

\* ------------------------------------------------------------------------
\* Strings: sequences of tokens.
Lit(s) == [kind |-> "lit", text |-> s, n |-> 0, d |-> 1, digits |-> ""]
Str(s) == <<Lit(s)>>

\* String(k) for the integers the model turns into text (cell values and row
\* indexes), at index k + 1.
DecimalText ==
  <<"0", "1", "2", "3", "4", "5", "6", "7", "8", "9", "10", "11", "12", "13", "14", "15",
    "16", "17", "18", "19", "20", "21", "22", "23", "24", "25", "26", "27", "28", "29",
    "30", "31">>
String(k) == DecimalText[k + 1]

\* The property keys a precision argument names in cachedLocales:
\* String(precision) for undefined and for the numbers 0..MaxPrecision.
PrecisionKeys == {"undefined"} \cup {String(p) : p \in 0..MaxPrecision}

\* The state of the module-level cache: cachedLocales maps the keys that have
\* an entry to their locale object; created counts the calls of createLocale
\* per key (the n-th object created for a key carries id n).
EmptyCache == [cachedLocales |-> <<>>, created |-> [p \in PrecisionKeys |-> 0]]

createLocale(precision, id) ==
  [maximumFractionDigits |-> precision, minimumFractionDigits |-> precision, id |-> id]

\* locale.format(x): the text of a finite number at the locale's fraction digits.
LocaleFormat(locale, x) ==
  <<[kind |-> "Intl", text |-> "", n |-> x.n, d |-> x.d,
     digits |-> locale.maximumFractionDigits]>>

\* x.toFixed(digits)
toFixed(x, digits) ==
  <<[kind |-> "toFixed", text |-> "", n |-> x.n, d |-> x.d, digits |-> digits]>>

\* A lookup that never finds an entry.
AlwaysMiss(cache, precision) == TRUE

\* !cachedLocales[precision]
CacheMiss(cache, precision) == precision \notin DOMAIN cache.cachedLocales

\* if (!cachedLocales[precision]) cachedLocales[precision] = createLocale(precision);
EnsureLocale(cache, precision) ==
  IF CacheMiss(cache, precision)
    THEN LET id == cache.created[precision] + 1
             kept == [q \in DOMAIN cache.cachedLocales \ {precision} |->
                        cache.cachedLocales[q]]
         IN [cachedLocales |-> kept @@ (precision :> createLocale(precision, id)),
             created |-> [cache.created EXCEPT ![precision] = id]]
    ELSE cache

\* Every formatter returns [ret |-> the string, cache |-> the cache afterwards].
formatCurrency(cache, v, row, precision) ==
  IF ~isValidNumber(v) THEN [ret |-> Str("-"), cache |-> cache]
  ELSE LET p == IF precision \in {"undefined", "null"} THEN "2" ELSE precision
           c == EnsureLocale(cache, p)
       IN [ret |-> Str("$") \o LocaleFormat(c.cachedLocales[p], v), cache |-> c]

formatDollars(cache, v) == formatCurrency(cache, v, JSNull, "0")

formatCPM(cache, v) ==
  formatCurrency(cache, IF Truthy(v) THEN Divide(v, 1000) ELSE v, JSUndefined, "undefined")

formatPercent(cache, v, row, precision) ==
  IF ~isValidNumber(v) THEN [ret |-> Str("-"), cache |-> cache]
  ELSE LET p == IF precision = "undefined" THEN "2" ELSE precision
           c == EnsureLocale(cache, p)
       IN [ret |-> LocaleFormat(c.cachedLocales[p], Times(v, 100)) \o Str("%"),
           cache |-> c]

formatPercent0(cache, v) == formatPercent(cache, v, JSNull, "0")
formatPercent1(cache, v) == formatPercent(cache, v, JSNull, "1")

formatFixed(cache, v, row, precision) ==
  IF ~isValidNumber(v) THEN [ret |-> Str("-"), cache |-> cache]
  ELSE LET c == EnsureLocale(cache, precision)
       IN [ret |-> LocaleFormat(c.cachedLocales[precision], v), cache |-> c]

formatFixed0(cache, v) == formatFixed(cache, v, JSNull, "0")
formatFixed1(cache, v) == formatFixed(cache, v, JSNull, "1")
formatFixed2(cache, v) == formatFixed(cache, v, JSNull, "2")

formatThousands(cache, v, row) ==
  LET r == formatFixed(cache, Divide(v, 1000), row, "1")
  IN [ret |-> r.ret \o Str("K"), cache |-> r.cache]

formatCalibration(cache, v) ==
  [ret |-> IF isValidNumber(v) THEN toFixed(v, "2") \o Str("x") ELSE Str("-"),
   cache |-> cache]

FormatterNames ==
  {"formatCurrency", "formatDollars", "formatCPM", "formatPercent", "formatPercent0",
   "formatPercent1", "formatFixed", "formatFixed0", "formatFixed1", "formatFixed2",
   "formatThousands", "formatCalibration"}

\* formatterFn(v, row, precision): the call of a built-in by its name.
CallFormatter(name, cache, v, row, precision) ==
  CASE name = "formatCurrency" -> formatCurrency(cache, v, row, precision)
    [] name = "formatDollars" -> formatDollars(cache, v)
    [] name = "formatCPM" -> formatCPM(cache, v)
    [] name = "formatPercent" -> formatPercent(cache, v, row, precision)
    [] name = "formatPercent0" -> formatPercent0(cache, v)
    [] name = "formatPercent1" -> formatPercent1(cache, v)
    [] name = "formatFixed" -> formatFixed(cache, v, row, precision)
    [] name = "formatFixed0" -> formatFixed0(cache, v)
    [] name = "formatFixed1" -> formatFixed1(cache, v)
    [] name = "formatFixed2" -> formatFixed2(cache, v)
    [] name = "formatThousands" -> formatThousands(cache, v, row)
    [] name = "formatCalibration" -> formatCalibration(cache, v)


\* ------------------------------------------------------------------------
\* Rows, columns and sort options.

\* The fields of a row, in the order Object.keys enumerates them.
KeyOrder == <<"a", "b">>
CellValues == {1, 2}
Rows == {[a |-> 1, b |-> 2], [a |-> 2, b |-> 1], [a |-> 2, b |-> 2]}

RECURSIVE SeqsUpTo(_, _)
SeqsUpTo(S, k) ==
  IF k = 0 THEN {<<>>}
  ELSE LET shorter == SeqsUpTo(S, k - 1)
       IN shorter \cup {Append(s, x) : s \in {t \in shorter : Len(t) = k - 1}, x \in S}

\* A sort options object is the sequence of its <<key, value>> properties in
\* insertion order; NoSortOptions stands for undefined.
NoSortOptions == <<>>
SortObject(column, order) == << <<"column", column>>, <<"order", order>> >>
SortObjectOrderFirst(column, order) == << <<"order", order>>, <<"column", column>> >>

\* obj?.key
Get(obj, key) ==
  IF \E i \in DOMAIN obj : obj[i][1] = key
    THEN obj[CHOOSE i \in DOMAIN obj : obj[i][1] = key][2]
    ELSE "undefined"

\* JSON.stringify(obj): undefined for undefined, else the properties in
\* insertion order.
RECURSIVE JSONProperties(_, _)
JSONProperties(obj, i) ==
  IF i > Len(obj) THEN ""
  ELSE (IF i > 1 THEN "," ELSE "") \o "\"" \o obj[i][1] \o "\":\"" \o obj[i][2] \o "\""
       \o JSONProperties(obj, i + 1)

JSONstringify(obj) ==
  IF obj = NoSortOptions THEN "undefined" ELSE "{" \o JSONProperties(obj, 1) \o "}"

\* The sort options a caller passes to the constructor or to setSortOptions.
SortInputs ==
  {NoSortOptions, SortObject("a", "up"), SortObjectOrderFirst("a", "asc")}
    \cup {SortObject(c, o) : c \in Range(KeyOrder), o \in {"asc", "desc"}}

\* The constructor's default for pageSize.
DefaultPageSize == 30

\* The options a table is constructed with.  columns <<>> and pageSize 0 stand
\* for an option that is not given.
Options ==
  { [columns |-> <<>>, pageSize |-> 0, sort |-> NoSortOptions,
     clickableColumns |-> <<>>, formatters |-> <<>>, columnNames |-> <<>>],
    [columns |-> <<"a">>, pageSize |-> 1, sort |-> SortObject("b", "asc"),
     clickableColumns |-> <<"a">>, formatters |-> ("a" :> "formatDollars"),
     columnNames |-> ("a" :> "Alpha")],
    [columns |-> <<"b", "a">>, pageSize |-> 2, sort |-> SortObject("a", "desc"),
     clickableColumns |-> <<>>, formatters |-> ("b" :> "formatThousands"),
     columnNames |-> <<>>] }

\* The row sequences a caller renders: every sequence of at most MaxRows rows,
\* and one of DefaultPageSize + 1 rows.
LongRows == [k \in 1..(DefaultPageSize + 1) |-> [a |-> (k % 2) + 1, b |-> ((k \div 2) % 2) + 1]]
RowInputs == SeqsUpTo(Rows, MaxRows) \cup {LongRows}

\* The selection predicates a caller passes with the rows ("undefined": none).
SelectedFns == {"undefined", "aIsOne"}
IsSelected(fn, row) == fn = "aIsOne" /\ row.a = 1

\* The calls of renderRows: every row sequence without a predicate, and the
\* sequences of one row with one.
RenderInputs ==
  {<<array, "undefined">> : array \in RowInputs}
    \cup {<<array, "aIsOne">> : array \in {r \in RowInputs : Len(r) = 1}}

\* The calls of renderRows of the specification with cell clicks: the
\* sequences of two of the rows.
ClickRows == {[a |-> 1, b |-> 2], [a |-> 2, b |-> 1]}
ClickRenderInputs == {<<array, "undefined">> : array \in SeqsUpTo(ClickRows, MaxRows)}

\* The values and precisions the formatters are called with.
FormatValues == {JSNull, JSUndefined, JSNaN, JSInfinity, Num(0), Num(1500)}
PrecisionArgs == PrecisionKeys

VARIABLES
  columnNames, columns, pageSize, sortOptions, clickableColumns, formatters,
  rows, renderedColumns, thead, tbody, cache, events, lastOp, call, options, supplied

\* options is the argument of the constructor; supplied is the array passed to
\* the last renderRows, in the caller's order (renderRows sorts the array in
\* place, so the program itself does not keep that order).
config == <<columnNames, columns, pageSize, clickableColumns, formatters, options>>
vars == <<columnNames, columns, pageSize, sortOptions, clickableColumns, formatters,
          rows, renderedColumns, thead, tbody, cache, events, lastOp, call, options,
          supplied>>
table == <<columnNames, columns, pageSize, sortOptions, clickableColumns, formatters,
           rows, renderedColumns, thead, tbody, events, lastOp, options, supplied>>
NoCall == [name |-> "", v |-> JSUndefined, precision |-> "undefined", ret |-> <<>>]

\* new DataTable(options); rows and renderedColumns are undefined until the
\* first render, <<>> here.
Init ==
  \E o \in Options :
    /\ options = o
    /\ supplied = <<>>
    /\ columnNames = o.columnNames
    /\ columns = o.columns
    /\ pageSize = IF o.pageSize # 0 THEN o.pageSize ELSE DefaultPageSize
    /\ sortOptions = o.sort
    /\ clickableColumns = o.clickableColumns
    /\ formatters = o.formatters
    /\ rows = <<>>
    /\ renderedColumns = <<>>
    /\ thead = <<>>
    /\ tbody = <<>>
    /\ cache = EmptyCache
    /\ events = <<>>
    /\ lastOp = [op |-> "constructor", i |-> 0, j |-> 0, arg |-> NoSortOptions]
    /\ call = NoCall

\* ------------------------------------------------------------------------
\* setSortOptions

\* setSortOptions with the comparison inverted.
SetSortOptionsInverted(current, next) ==
  IF JSONstringify(current) = JSONstringify(next) THEN next ELSE current

\* The sort options after setSortOptions(next) on current.
SetSortOptionsResult(current, next) ==
  IF JSONstringify(current) = JSONstringify(next) THEN current ELSE next

SetSortOptions(next) ==
  /\ sortOptions' = SetSortOptionsResult(sortOptions, next)
  /\ events' = <<>>
  /\ lastOp' = [op |-> "setSortOptions", i |-> 0, j |-> 0, arg |-> next]
  /\ UNCHANGED <<config, rows, renderedColumns, thead, tbody, cache, call, supplied>>

\* ------------------------------------------------------------------------
\* renderRows

compare(a, b) == IF a < b THEN -1 ELSE IF a > b THEN 1 ELSE 0

\* A comparator that ignores the order.
comparatorAscending(so, x, y) == compare(x[Get(so, "column")], y[Get(so, "column")])

\* The comparator renderRows builds from the sort options.
comparator(so, x, y) ==
  LET column == Get(so, "column")
  IN IF Get(so, "order") = "asc"
       THEN compare(x[column], y[column])
       ELSE compare(y[column], x[column])

\* Array.prototype.sort with the comparator: a stable sort.  Insert puts x
\* after every element that does not compare greater than it.
RECURSIVE Insert(_, _, _)
Insert(so, sorted, x) ==
  IF sorted = <<>> THEN <<x>>
  ELSE IF comparator(so, x, Head(sorted)) < 0 THEN <<x>> \o sorted
  ELSE <<Head(sorted)>> \o Insert(so, Tail(sorted), x)

RECURSIVE ArraySort(_, _)
ArraySort(so, array) ==
  IF array = <<>> THEN <<>>
  ELSE Insert(so, ArraySort(so, SubSeq(array, 1, Len(array) - 1)), array[Len(array)])

\* this.rows after "Sort the rows if necessary".
SortedRows(so, array) == IF so # NoSortOptions THEN ArraySort(so, array) ELSE array

ObjectKeys(row) == SelectSeq(KeyOrder, LAMBDA k : k \in DOMAIN row)

\* this.columns || Object.keys(this.rows[0])
ResolveColumns(configured, firstRow) ==
  IF configured # <<>> THEN configured ELSE ObjectKeys(firstRow)

\* format(col, row) of renderRows, with the cache the formatter leaves.
format(c, col, row) ==
  IF col \in DOMAIN formatters
    THEN CallFormatter(formatters[col], c, Num(row[col]), row, "undefined")
    ELSE [ret |-> Str(String(row[col])), cache |-> c]

\* /^[$]*[0-9,.\-]+[%xKMG]*$/.test(string)
IsDollarChars(t) == t.kind = "lit" /\ t.text = "$"
IsNumberChars(t) ==
  \/ t.kind \in {"Intl", "toFixed"}
  \/ t.kind = "lit" /\ (t.text = "-" \/ \E k \in DOMAIN DecimalText : DecimalText[k] = t.text)
IsUnitChars(t) == t.kind = "lit" /\ t.text \in {"%", "x", "K", "M", "G"}
isNumeric(string) ==
  \E i \in 0..Len(string) : \E k \in (i + 1)..Len(string) :
    /\ \A m \in 1..i : IsDollarChars(string[m])
    /\ \A m \in (i + 1)..k : IsNumberChars(string[m])
    /\ \A m \in (k + 1)..Len(string) : IsUnitChars(string[m])

\* colStyles: per column the value of the class attribute, "" for null.
RECURSIVE ColStyles(_, _, _)
ColStyles(c, cols, row) ==
  IF cols = <<>> THEN [out |-> <<>>, cache |-> c]
  ELSE LET col == Head(cols)
           f == format(c, col, row)
           classNames ==
             (IF \E m \in DOMAIN clickableColumns : clickableColumns[m] = col
                THEN <<"clickable">> ELSE <<>>)
             \o (IF isNumeric(f.ret) THEN <<"number">> ELSE <<>>)
           joined ==
             CASE Len(classNames) = 0 -> ""
               [] Len(classNames) = 1 -> classNames[1]
               [] OTHER -> classNames[1] \o "," \o classNames[2]
           rest == ColStyles(f.cache, Tail(cols), row)
       IN [out |-> <<joined>> \o rest.out, cache |-> rest.cache]

\* DataTable.formatColumnName on the keys of KeyOrder: no "-id", "percent",
\* "pct" or "delta" in them and one word each, which gets its first letter
\* in upper case.
formatColumnName(column) == CASE column = "a" -> "A" [] column = "b" -> "B"

\* The class tokens of an element whose class attribute is klass.
ClassList(klass) == IF klass = "" THEN {} ELSE {klass}

\* thead.innerHTML: one th per column.
HeaderCells(cols, colStyles) ==
  [m \in DOMAIN cols |->
     [column |-> cols[m],
      classList |-> ClassList(colStyles[m]),
      text |-> IF cols[m] \in DOMAIN columnNames
                 THEN columnNames[cols[m]] ELSE formatColumnName(cols[m])]]

\* columns.indexOf(column), 1-based; 0 for -1.
IndexOf(cols, column) ==
  IF \E m \in DOMAIN cols : cols[m] = column
    THEN CHOOSE m \in DOMAIN cols : cols[m] = column /\ \A q \in 1..(m - 1) : cols[q] # column
    ELSE 0

\* The order class added to the first th, whatever the sort column.
AddSortClassToFirst(so, cols, head) ==
  IF so # NoSortOptions /\ head # <<>>
    THEN [head EXCEPT ![1].classList = @ \cup {Get(so, "order")}]
    ELSE head

\* The th that gets the class of the sort order.
AddSortClass(so, cols, head) ==
  IF so # NoSortOptions
    THEN LET sortColumnIndex == IndexOf(cols, Get(so, "column"))
         IN IF sortColumnIndex >= 1
              THEN [head EXCEPT ![sortColumnIndex].classList = @ \cup {Get(so, "order")}]
              ELSE head
    ELSE head

Min(a, b) == IF a < b THEN a ELSE b

\* A row count without the page size.
RowCountAll(length, size) == length

\* Math.min(rows.length, this.pageSize)
RowCount(length, size) == Min(length, size)

RECURSIVE FormatCells(_, _, _, _)
FormatCells(c, cols, colStyles, row) ==
  IF cols = <<>> THEN [out |-> <<>>, cache |-> c]
  ELSE LET f == format(c, Head(cols), row)
           rest == FormatCells(f.cache, Tail(cols), Tail(colStyles), row)
       IN [out |-> <<[classList |-> ClassList(Head(colStyles)), column |-> Head(cols),
                      html |-> f.ret]>> \o rest.out,
           cache |-> rest.cache]

\* The tr elements of rows i..rowCount-1 (0-based i, as in the loop).
RECURSIVE BodyRows(_, _, _, _, _, _, _)
BodyRows(c, cols, colStyles, array, isSelectedFn, i, rowCount) ==
  IF i >= rowCount THEN [out |-> <<>>, cache |-> c]
  ELSE LET row == array[i + 1]
           rowClass ==
             IF isSelectedFn # "undefined"
               THEN (IF IsSelected(isSelectedFn, row) THEN "selected" ELSE "unselected")
               ELSE "null"
           cells == FormatCells(c, cols, colStyles, row)
           rest == BodyRows(cells.cache, cols, colStyles, array, isSelectedFn, i + 1, rowCount)
       IN [out |-> <<[i |-> String(i), rowClass |-> rowClass, cells |-> cells.out]>>
                   \o rest.out,
           cache |-> rest.cache]

\* What renderRows leaves behind for a sequence with a first row.
Rendered(array, isSelectedFn) ==
  LET sorted == SortedRows(sortOptions, array)
      cols == ResolveColumns(columns, sorted[1])
      colStyles == ColStyles(cache, cols, sorted[1])
      body == BodyRows(colStyles.cache, cols, colStyles.out, sorted, isSelectedFn,
                       0, RowCount(Len(sorted), pageSize))
  IN [rows |-> sorted,
      renderedColumns |-> cols,
      thead |-> AddSortClass(sortOptions, cols, HeaderCells(cols, colStyles.out)),
      tbody |-> body.out,
      cache |-> body.cache]

\* An empty render that clears the headers as well.
RenderedNothingClearsHead ==
  [rows |-> <<>>, renderedColumns |-> renderedColumns, thead |-> <<>>, tbody |-> <<>>,
   cache |-> cache]

\* What renderRows leaves behind for a sequence without a first row: the
\* body is cleared and nothing else is touched.
RenderedNothing ==
  [rows |-> <<>>, renderedColumns |-> renderedColumns, thead |-> thead, tbody |-> <<>>,
   cache |-> cache]

RenderRows(array, isSelectedFn) ==
  /\ events' = <<>>
  /\ lastOp' = [op |-> "renderRows", i |-> 0, j |-> 0, arg |-> NoSortOptions]
  /\ supplied' = array
  /\ call' = call
  /\ \E r \in {IF array = <<>> THEN RenderedNothing ELSE Rendered(array, isSelectedFn)} :
       /\ rows' = r.rows
       /\ renderedColumns' = r.renderedColumns
       /\ thead' = r.thead
       /\ tbody' = r.tbody
       /\ cache' = r.cache
       /\ UNCHANGED <<config, sortOptions>>

\* ------------------------------------------------------------------------
\* onClick

parseInt(string) == CHOOSE k \in 0..(Len(DecimalText) - 1) : String(k) = string

\* A detail read from the first stored row, whatever row was clicked.
CellClickDetailFirstRow(i, j, shiftKey) ==
  [column |-> renderedColumns[j], value |-> rows[1][renderedColumns[j]],
   action |-> IF shiftKey THEN "toggle" ELSE "select"]

\* The detail of the cellClick event for a click on cell j of body row i
\* (both 1-based: td.cellIndex is j - 1).
CellClickDetail(i, j, shiftKey) ==
  LET tr == tbody[i]
      column == renderedColumns[j]
  IN [column |-> column,
      value |-> rows[parseInt(tr.i) + 1][column],
      action |-> IF shiftKey THEN "toggle" ELSE "select"]

TdClick(i, j, shiftKey) ==
  /\ i \in DOMAIN tbody
  /\ j \in DOMAIN tbody[i].cells
  /\ events' = <<[type |-> "cellClick", detail |-> CellClickDetail(i, j, shiftKey)]>>
  /\ lastOp' = [op |-> "tdClick", i |-> i, j |-> j, arg |-> NoSortOptions]
  /\ UNCHANGED <<config, sortOptions, rows, renderedColumns, thead, tbody, cache, call,
                 supplied>>

\* A click that keeps the order of the sort column.
ClickSortOptionsKeepOrder(current, column) ==
  SortObject(column, IF Get(current, "column") = column
                       THEN Get(current, "order") ELSE "desc")

\* The sort options a click on the header of column builds.
ClickSortOptions(current, column) ==
  IF Get(current, "column") = column
    THEN SortObject(column, IF Get(current, "order") = "asc" THEN "desc" ELSE "asc")
    ELSE SortObject(column, "desc")

\* A header click that dispatches before it sets the sort options.
ThClickDispatchesFirst(j) ==
  /\ j \in DOMAIN thead
  /\ events' = <<[type |-> "sortChange", detail |-> [sort |-> sortOptions]]>>
  /\ sortOptions' = SetSortOptionsResult(sortOptions,
                                         ClickSortOptions(sortOptions, renderedColumns[j]))
  /\ lastOp' = [op |-> "thClick", i |-> 0, j |-> j, arg |-> NoSortOptions]
  /\ UNCHANGED <<config, rows, renderedColumns, thead, tbody, cache, call, supplied>>

\* A click on header cell j (1-based: th.cellIndex is j - 1).
ThClick(j) ==
  /\ j \in DOMAIN thead
  /\ \E after \in {SetSortOptionsResult(sortOptions,
                                         ClickSortOptions(sortOptions, renderedColumns[j]))} :
       /\ sortOptions' = after
       /\ events' = <<[type |-> "sortChange", detail |-> [sort |-> after]]>>
  /\ lastOp' = [op |-> "thClick", i |-> 0, j |-> j, arg |-> NoSortOptions]
  /\ UNCHANGED <<config, rows, renderedColumns, thead, tbody, cache, call, supplied>>

\* ------------------------------------------------------------------------
\* A call of a built-in formatter by the page.  The formatters that take a
\* precision get it as third argument; the others take the value alone.
TakesPrecision(name) == name \in {"formatCurrency", "formatPercent", "formatFixed"}

Format(name, v, precision) ==
  /\ TakesPrecision(name) \/ precision = "undefined"
  /\ LET r == CallFormatter(name, cache, v, JSUndefined, precision)
     IN /\ \A p \in PrecisionKeys : r.cache.created[p] <= MaxCreated
        /\ cache' = r.cache
        /\ call' = [name |-> name, v |-> v, precision |-> precision, ret |-> r.ret]
  /\ UNCHANGED table

\* ------------------------------------------------------------------------
\* Specifications.

\* The table with all its handlers, on sequences of two different rows.
Next ==
  \/ \E input \in ClickRenderInputs : RenderRows(input[1], input[2])
  \/ \E next \in SortInputs : SetSortOptions(next)
  \/ \E i \in 1..MaxRows, j \in 1..Len(KeyOrder), shiftKey \in BOOLEAN :
       TdClick(i, j, shiftKey)
  \/ \E j \in 1..Len(KeyOrder) : ThClick(j)

Spec == Init /\ [][Next]_vars

\* Rendering and sorting, on all the row sequences.
NextRender ==
  \/ \E input \in RenderInputs : RenderRows(input[1], input[2])
  \/ \E next \in SortInputs : SetSortOptions(next)
  \/ \E j \in 1..Len(KeyOrder) : ThClick(j)

SpecRender == Init /\ [][NextRender]_vars

\* The formatters called directly.
NextFormat ==
  \E name \in FormatterNames, v \in FormatValues, precision \in PrecisionArgs :
    Format(name, v, precision)

SpecFormat == Init /\ [][NextFormat]_vars

\* ------------------------------------------------------------------------
\* Properties.

Column(so) == Get(so, "column")
Order(so) == Get(so, "order")

\* The last operation was a renderRows of a non-empty sequence.
AfterRender == lastOp.op = "renderRows" /\ rows # <<>>

\* Body row tr displays the formatted content of row.
ShowsRow(tr, row) ==
  /\ Len(tr.cells) = Len(renderedColumns)
  /\ \A j \in DOMAIN renderedColumns :
       /\ tr.cells[j].column = renderedColumns[j]
       /\ tr.cells[j].html = format(cache, renderedColumns[j], row).ret

Count(s, x) == Cardinality({i \in DOMAIN s : s[i] = x})
IsPermutation(s, t) ==
  /\ Len(s) = Len(t)
  /\ \A x \in Range(s) \cup Range(t) : Count(s, x) = Count(t, x)

\* The header cells that carry a sort-direction indicator class.
HasIndicator(th) == th.classList \cap {"asc", "desc"} # {}
IndicatorCells == {k \in DOMAIN thead : HasIndicator(thead[k])}

\* Same properties with the same values, whatever the insertion order.
DeepEqual(x, y) ==
  /\ {x[i][1] : i \in DOMAIN x} = {y[i][1] : i \in DOMAIN y}
  /\ \A key \in {x[i][1] : i \in DOMAIN x} : Get(x, key) = Get(y, key)

\* C1: a click on the header of column c flips the order when c is the sort
\* column ("asc" becomes "desc", anything else becomes "asc") and otherwise
\* (no sort state, or another sort column) sets {column: c, order: "desc"}.
C1_HeaderClickSetsSortState ==
  [][lastOp'.op = "thClick" =>
       LET c == renderedColumns[lastOp'.j]
       IN IF sortOptions # NoSortOptions /\ Column(sortOptions) = c
            THEN sortOptions' =
                   SortObject(c, IF Order(sortOptions) = "asc" THEN "desc" ELSE "asc")
            ELSE sortOptions' = SortObject(c, "desc")]_vars

\* A second click on the same header has turned "desc" (or an order that is
\* neither) into "asc".
C1_Witness ==
  /\ lastOp.op = "thClick"
  /\ Column(sortOptions) = renderedColumns[lastOp.j]
  /\ Order(sortOptions) = "asc"

\* C2: after renderRows with sort state {column: c, order: "asc"}, a row with
\* the smaller value in c is at no greater index than one with a larger value,
\* in the stored and in the rendered sequence; with "desc" the row with the
\* larger value comes no later; and the stored sequence is a permutation of
\* the rows supplied.
C2_RowsSortedByColumn ==
  (AfterRender /\ sortOptions # NoSortOptions /\ Order(sortOptions) \in {"asc", "desc"}) =>
    LET c == Column(sortOptions)
    IN /\ Order(sortOptions) = "asc" =>
            \A i, j \in DOMAIN rows : rows[i][c] < rows[j][c] => i <= j
       /\ Order(sortOptions) = "desc" =>
            \A i, j \in DOMAIN rows : rows[i][c] > rows[j][c] => i <= j
       /\ IsPermutation(rows, supplied)
       /\ \A i \in DOMAIN tbody : ShowsRow(tbody[i], rows[i])

\* A descending sort has moved a row with a larger value in front of the row
\* the caller had put first.
C2_Witness ==
  /\ AfterRender
  /\ sortOptions # NoSortOptions
  /\ Order(sortOptions) = "desc"
  /\ Len(rows) >= 2
  /\ rows[1][Column(sortOptions)] > supplied[1][Column(sortOptions)]
  /\ rows[1][Column(sortOptions)] > rows[Len(rows)][Column(sortOptions)]

\* C3: a click on cell j of body row i raises one cellClick event whose column
\* is the column of that cell and whose value is the raw value, in that
\* column, of the stored row the body row displays.
C3_CellClickRaisesRawValue ==
  lastOp.op = "tdClick" =>
    LET tr == tbody[lastOp.i]
        c == renderedColumns[lastOp.j]
    IN /\ Len(events) = 1
       /\ events[1].type = "cellClick"
       /\ events[1].detail.column = c
       /\ \E k \in DOMAIN rows :
            /\ ShowsRow(tr, rows[k])
            /\ events[1].detail.value = rows[k][c]

\* The clicked body row displays a row that sorting has moved: the caller had
\* another row, with another value in the clicked column, at that index.
C3_Witness ==
  /\ lastOp.op = "tdClick"
  /\ sortOptions # NoSortOptions
  /\ supplied[lastOp.i] # rows[lastOp.i]
  /\ events[1].detail.value # supplied[lastOp.i][renderedColumns[lastOp.j]]
  /\ events[1].detail.value = rows[lastOp.i][renderedColumns[lastOp.j]]

\* C4: renderRows of n > 0 rows renders min(n, pageSize) body rows, pageSize
\* being 30 when the options give none; body row i (from 0) carries index i
\* and displays the row at index i of the sorted sequence.
C4_PageOfSortedRows ==
  AfterRender =>
    /\ pageSize = (IF options.pageSize = 0 THEN 30 ELSE options.pageSize)
    /\ Len(tbody) = (IF Len(rows) < pageSize THEN Len(rows) ELSE pageSize)
    /\ Len(rows) = Len(supplied)
    /\ \A i \in DOMAIN tbody :
         /\ tbody[i].i = String(i - 1)
         /\ ShowsRow(tbody[i], rows[i])

\* 31 rows rendered by a table without a pageSize option: 30 body rows.
C4_Witness ==
  /\ AfterRender
  /\ options.pageSize = 0
  /\ Len(rows) = 31
  /\ Len(tbody) = 30

\* C5: renderRows of an empty sequence leaves the body with no rows and the
\* headers (cells, classes, rendered columns) as they were.
C5_EmptyRenderKeepsHeaders ==
  [][(lastOp'.op = "renderRows" /\ supplied' = <<>>) =>
       /\ tbody' = <<>>
       /\ thead' = thead
       /\ renderedColumns' = renderedColumns]_vars

\* An empty render after an earlier one: the headers and the sort indicator
\* are still there, the body is empty.
C5_Witness ==
  /\ lastOp.op = "renderRows"
  /\ supplied = <<>>
  /\ tbody = <<>>
  /\ IndicatorCells # {}

\* C6: every built-in formatter returns "-" for null, undefined and NaN.
C6_FormattersReturnDash ==
  (call.name \in FormatterNames /\ call.v \in {JSNull, JSUndefined, JSNaN}) =>
    call.ret = Str("-")

\* C7: a header click raises exactly one sortChange event, whose payload is
\* the sort state after the click, and that state differs from the state
\* before the click in column or in order.
C7_HeaderClickRaisesSortChange ==
  [][lastOp'.op = "thClick" =>
       /\ events' = <<[type |-> "sortChange", detail |-> [sort |-> sortOptions']]>>
       /\ \/ Column(sortOptions') # Column(sortOptions)
          \/ Order(sortOptions') # Order(sortOptions)]_vars

\* A click on a header has raised sortChange with the new sort state, "desc"
\* on the clicked column.
C7_Witness ==
  /\ lastOp.op = "thClick"
  /\ Len(events) = 1
  /\ events[1].type = "sortChange"
  /\ events[1].detail.sort = sortOptions
  /\ Order(sortOptions) = "desc"

\* C8: at most one header cell carries a sort-direction indicator class; after
\* a non-empty render a header carries it exactly when its column is the sort
\* column (the class being the order), and no header carries it when there is
\* no sort state or the sort column is not among the rendered columns.
C8_OneSortIndicator ==
  /\ Cardinality(IndicatorCells) <= 1
  /\ AfterRender =>
       /\ \A k \in DOMAIN thead :
            HasIndicator(thead[k]) <=>
              /\ sortOptions # NoSortOptions
              /\ Order(sortOptions) \in {"asc", "desc"}
              /\ thead[k].column = Column(sortOptions)
              /\ Order(sortOptions) \in thead[k].classList
       /\ (sortOptions = NoSortOptions \/ Column(sortOptions) \notin Range(renderedColumns))
            => IndicatorCells = {}

\* After a render the second header, and no other, carries the indicator of
\* the sort column.
C8_Witness ==
  /\ AfterRender
  /\ IndicatorCells = {2}
  /\ thead[2].column = Column(sortOptions)

\* C9: setSortOptions(next) with next deep-equal to the sort state leaves the
\* state with the same column and order; otherwise it makes next the sort
\* state.  It raises no event and renders nothing.
C9_SetSortOptionsReplaces ==
  [][lastOp'.op = "setSortOptions" =>
       /\ IF DeepEqual(lastOp'.arg, sortOptions)
            THEN DeepEqual(sortOptions', sortOptions)
            ELSE sortOptions' = lastOp'.arg
       /\ events' = <<>>
       /\ <<rows, renderedColumns, thead, tbody>>' = <<rows, renderedColumns, thead, tbody>>]_vars

\* setSortOptions has replaced the sort state of a rendered table, whose
\* header still shows the indicator of the earlier state.
C9_Witness ==
  /\ lastOp.op = "setSortOptions"
  /\ sortOptions = lastOp.arg
  /\ sortOptions # NoSortOptions
  /\ \E k \in IndicatorCells : thead[k].column # Column(sortOptions)

\* The precisions at which a returned string was formatted by a locale object.
UsedPrecisions(string) ==
  {string[m].digits : m \in {k \in DOMAIN string : string[k].kind = "Intl"}}

\* C10: a locale object is created at most once per precision; a call that
\* formats a number at precision p adds the entry for p when there is none and
\* creates nothing when there is one; no entry is ever replaced or removed.
C10_LocaleCreatedOncePerPrecision ==
  [][/\ \A p \in PrecisionKeys : cache'.created[p] <= 1
     /\ \A p \in DOMAIN cache.cachedLocales :
          /\ p \in DOMAIN cache'.cachedLocales
          /\ cache'.cachedLocales[p] = cache.cachedLocales[p]
     /\ \A p \in UsedPrecisions(call'.ret) :
          /\ p \in DOMAIN cache'.cachedLocales
          /\ cache'.created[p] =
               (IF p \in DOMAIN cache.cachedLocales THEN cache.created[p]
                ELSE cache.created[p] + 1)]_vars

\* Every precision has its entry, each created once, and the last call
\* formatted a number at precision 1.
C10_Witness ==
  /\ call.name = "formatThousands"
  /\ call.v = Num(1500)
  /\ DOMAIN cache.cachedLocales = PrecisionKeys
  /\ \A p \in PrecisionKeys : cache.created[p] = 1

====
